---- MODULE Spec2Model ----
(***************************************************************************)
(* Orchestration core of the pharmacy assistant: the agent registry, the   *)
(* routing and dispatch procedure of OrchestratorAgent.process and the      *)
(* workflow engine OrchestratorAgent.execute_workflow.                      *)
(*                                                                         *)
(* Python dictionaries are functions from string keys; JSON values are      *)
(* strings, with one token per class of value the code treats differently   *)
(* (None, an unhashable list, a value that is not a mapping).               *)
(***************************************************************************)
EXTENDS Integers, Sequences, FiniteSets, TLC

VARIABLES
    registry,       \* AgentRegistry._agents: agent id -> agent instance
    pc,             \* position of the one call in progress
    callerPayload,  \* payload the caller of the process call in progress
                    \* passed in
    inputPayload,   \* input_data.payload of the request object, as it is now
    llm,            \* what call_llm returned to _analyze_and_route, if awaited
    route,          \* what _analyze_and_route produced for this request
    agentCalls,     \* agent.process invocations so far: <<[agent, payload]>>
    response,       \* the AgentOutput returned to the caller
    raised,         \* an exception escaped the call to the caller
    wfSteps,        \* execute_workflow: the steps argument
    wfIdx,          \* execute_workflow: index of the step of the for loop
    wfContext,      \* execute_workflow: the local context
    wfResults,      \* execute_workflow: the local results
    ret,            \* process: what the target agent and log_action did
    frames,         \* process: the enclosing process calls that wait at line
                    \* 90 for this one (orchestrator re-entry), innermost first
    regLog,         \* the register calls made on the registry, in order
    regOp,          \* the last call made on the registry and what it returned
    toolOp,         \* the last execute_tool call and what it returned
    agentOp,        \* the direct call of a concrete agent's process made last,
                    \* until the orchestrator is called
    active_connections, \* ConnectionManager.active_connections: user_id ->
                        \* websocket
    sockets,        \* per WebSocket connection: its user_id and the position of
                    \* its websocket_endpoint coroutine
    wsSent          \* the message manager.send_message was last asked to send:
                    \* for which connection's handler, and where it went

\* the variables of the process or execute_workflow call in progress
callVars == <<pc, callerPayload, inputPayload, llm, route, agentCalls,
              response, raised, wfSteps, wfIdx, wfContext, wfResults,
              ret, frames>>

\* the variables of the chat WebSocket endpoint
chatVars == <<active_connections, sockets, wsSent>>

vars == <<registry, callVars, regLog, regOp, toolOp, agentOp, chatVars>>

(***************************************************************************)
(* Values                                                                   *)
(***************************************************************************)
None == "<None>"
Unhashable == "<list>"
EmptyMap == [k \in {} |-> ""]
NotAMapping == [k \in {"<not a mapping>"} |-> "<str>"]

\* dict.get(key, default)
Get(m, k, default) == IF k \in DOMAIN m THEN m[k] ELSE default

\* {**a, **b}, and a.update(b)
Merge(a, b) ==
    [k \in (DOMAIN a) \cup (DOMAIN b) |-> IF k \in DOMAIN b THEN b[k] ELSE a[k]]

\* Python truth value of a payload value
Truthy(v) == v \notin {None, ""}

\* AgentOutput(...) with the defaults of the fields that were not passed
AgentOutput(success, data, error, error_code, metadata) ==
    [success |-> success, data |-> data, error |-> error,
     error_code |-> error_code, metadata |-> metadata]

NoResponse == AgentOutput(FALSE, EmptyMap, "<no response>", "<no response>", EmptyMap)

(***************************************************************************)
(* Agent registry                                                           *)
(***************************************************************************)
\* a register that keeps an existing entry (first registration wins)
RegisterFirstWins(reg, agent_type, agent) ==
    Merge([k \in {agent_type} |-> agent], reg)

\* AgentRegistry.register
Register(reg, agent_type, agent) ==
    Merge(reg, [k \in {agent_type} |-> agent])

\* AgentRegistry.get; a dict lookup raises TypeError on an unhashable key
RegistryGet(reg, agent_type) ==
    IF agent_type = Unhashable
    THEN [exc |-> "unhashable type: 'list'", agent |-> None]
    ELSE [exc |-> None, agent |-> Get(reg, agent_type, None)]

\* AgentRegistry.list_agents: the keys
ListAgents(reg) == DOMAIN reg

\* a call on the registry: its name, its id argument, the exception it
\* raised, the agent get returned, the ids list_agents returned
RegOp(op, agent_type, exc, agent, listed) ==
    [op |-> op, agent_type |-> agent_type, exc |-> exc, agent |-> agent,
     listed |-> listed]

NoRegOp == RegOp("<none>", None, None, None, {})

\* register_agents(): the six register calls, in order
RegisterAgentsCalls ==
    << [agent_type |-> "orchestrator", agent |-> "orchestrator", by |-> "register_agents"],
       [agent_type |-> "customer_support", agent |-> "customer_support", by |-> "register_agents"],
       [agent_type |-> "medicine_search", agent |-> "medicine_search", by |-> "register_agents"],
       [agent_type |-> "prescription_validation", agent |-> "prescription_validation", by |-> "register_agents"],
       [agent_type |-> "order_processing", agent |-> "order_processing", by |-> "register_agents"],
       [agent_type |-> "compliance_safety", agent |-> "compliance_safety", by |-> "register_agents"] >>

\* register_agents(): one instance per canonical id
RegisteredAgents ==
    [a \in {"orchestrator", "customer_support", "medicine_search",
            "prescription_validation", "order_processing",
            "compliance_safety"} |-> a]

(***************************************************************************)
(* The routing model call and json.loads of its content                     *)
(***************************************************************************)
\* objects the routing model can answer with
LlmObjects ==
    { [target_agent |-> "medicine_search", reasoning |-> "search",
       context_to_pass |-> [x |-> "9"], priority |-> "high"],
      [target_agent |-> "customer_support", reasoning |-> "status",
       context_to_pass |-> EmptyMap, priority |-> "normal"],
      EmptyMap,
      [reasoning |-> "no target", context_to_pass |-> [x |-> "9"]],
      [target_agent |-> "pharmacist_review", reasoning |-> "review",
       context_to_pass |-> EmptyMap, priority |-> "urgent"],
      [target_agent |-> "medicine_search", context_to_pass |-> NotAMapping],
      [target_agent |-> Unhashable, priority |-> "low"],
      [target_agent |-> None, context_to_pass |-> EmptyMap],
      [target_agent |-> "orchestrator", context_to_pass |-> [message |-> "again"]],
      [target_agent |-> "order_processing",
       context_to_pass |-> [x |-> "9", action |-> "create"]] }

\* what call_llm returns: {"success", "content"}; content by its class
LlmResponses ==
    { [success |-> FALSE, kind |-> "none", obj |-> EmptyMap],
      [success |-> TRUE, kind |-> "none", obj |-> EmptyMap],
      [success |-> TRUE, kind |-> "text", obj |-> EmptyMap],
      [success |-> TRUE, kind |-> "json_other", obj |-> EmptyMap] }
    \cup { [success |-> TRUE, kind |-> "json_object", obj |-> o] : o \in LlmObjects }

NoLlm == [success |-> FALSE, kind |-> "<not called>", obj |-> EmptyMap]

\* json.loads(response["content"])
JsonLoads(r) ==
    CASE r.kind = "none" ->
            [exc |-> "TypeError", is_dict |-> FALSE, value |-> EmptyMap]
      [] r.kind = "text" ->
            [exc |-> "JSONDecodeError", is_dict |-> FALSE, value |-> EmptyMap]
      [] r.kind = "json_other" ->
            [exc |-> None, is_dict |-> FALSE, value |-> EmptyMap]
      [] OTHER ->
            [exc |-> None, is_dict |-> TRUE, value |-> r.obj]

(***************************************************************************)
(* Tools and BaseAgent.execute_tool                                         *)
(***************************************************************************)
\* the agents whose execute_tool is called: customer_support owns four
\* tools, the orchestrator owns none
ToolAgents == {"customer_support", "orchestrator"}

ToolsOf(agent) ==
    IF agent = "customer_support"
    THEN {"search_faq", "get_order_status", "escalate_to_human",
          "get_shipping_info"}
    ELSE {}

\* the handler bound to a tool, and its parameters
HandlerName(tool) == "CustomerSupportAgent._" \o tool \o "()"

RequiredParams(tool) ==
    CASE tool = "search_faq" -> {"query"}
      [] tool = "get_order_status" -> {"order_number"}
      [] tool = "escalate_to_human" -> {"reason"}
      [] OTHER -> {}

AllParams(tool) ==
    CASE tool = "search_faq" -> {"query"}
      [] tool = "get_order_status" -> {"order_number", "user_id"}
      [] tool = "escalate_to_human" -> {"reason", "priority"}
      [] OTHER -> {"topic"}

\* what a handler call ends in: an exception, or a dict given as the
\* sequence of its items
HandlerRaises(msg) == [called |-> TRUE, exc |-> msg, result |-> <<>>]
HandlerReturns(items) == [called |-> TRUE, exc |-> None, result |-> items]
NoHandlerCall == [called |-> FALSE, exc |-> None, result |-> <<>>]

\* the words of the keys of faq_db
FaqWords ==
    {"how", "long", "shipping", "cost", "track", "order", "return", "policy",
     "to", "upload", "prescription", "valid", "refill", "contact", "support",
     "business", "hours", "insurance"}

\* the four handlers, called with the keyword arguments kwargs
Handler(tool, kwargs) ==
    LET unexpected == DOMAIN kwargs \ AllParams(tool)
        missing == RequiredParams(tool) \ DOMAIN kwargs
    IN  CASE unexpected # {} ->
               HandlerRaises(HandlerName(tool)
                             \o " got an unexpected keyword argument '"
                             \o (CHOOSE k \in unexpected : TRUE) \o "'")
          [] unexpected = {} /\ missing # {} ->
               HandlerRaises(HandlerName(tool)
                             \o " missing 1 required positional argument: '"
                             \o (CHOOSE k \in missing : TRUE) \o "'")
          [] OTHER ->
               CASE tool = "search_faq" ->
                      IF kwargs["query"] = Unhashable
                      THEN HandlerRaises("'list' object has no attribute 'lower'")
                      ELSE IF kwargs["query"] \in FaqWords
                      THEN HandlerReturns(<< <<"found", "true">>,
                                             <<"results", "[...]">> >>)
                      ELSE HandlerReturns(<< <<"found", "false">>,
                                             <<"results", "[]">> >>)
                 [] tool = "get_order_status" ->
                      HandlerReturns(<< <<"order_number", kwargs["order_number"]>>,
                                        <<"status", "shipped">> >>)
                 [] tool = "escalate_to_human" ->
                      HandlerReturns(<< <<"escalated", "true">>,
                                        <<"reason", kwargs["reason"]>>,
                                        <<"priority", Get(kwargs, "priority", "normal")>> >>)
                 [] OTHER ->
                      LET topic == Get(kwargs, "topic", "rates")
                      IN  IF topic = Unhashable
                          THEN HandlerRaises("unhashable type: 'list'")
                          ELSE IF topic \in {"rates", "time"}
                          THEN HandlerReturns(<< <<"standard", topic>>,
                                                 <<"express", topic>> >>)
                          ELSE IF topic = "policy"
                          THEN HandlerReturns(<< <<"policy", "same day">> >>)
                          ELSE HandlerReturns(<< <<"rates", "{...}">>,
                                                 <<"time", "{...}">>,
                                                 <<"policy", "same day">> >>)

\* AgentTool.execute(**arguments): arguments must be a mapping
ToolExecute(tool, loaded) ==
    IF loaded.is_dict
    THEN Handler(tool, loaded.value)
    ELSE [called |-> FALSE,
          exc |-> "argument after ** must be a mapping",
          result |-> <<>>]

\* json.dumps of a dict given as the sequence of its items
RECURSIVE DumpsItems(_)
DumpsItems(items) ==
    IF items = <<>> THEN ""
    ELSE "\"" \o items[1][1] \o "\": \"" \o items[1][2] \o "\""
         \o (IF Len(items) > 1 THEN ", " ELSE "")
         \o DumpsItems(Tail(items))

JsonDumps(items) == "{" \o DumpsItems(items) \o "}"

\* json.dumps({"error": message}) and json.dumps({"result": result})
DumpsError(message) == JsonDumps(<< <<"error", message>> >>)
DumpsResult(result) == "{\"result\": " \o JsonDumps(result) \o "}"

\* an execute_tool call: its arguments, the exception that left it, the key
\* and content of the object it serialized, the text it returned
ToolOp(agent, tool, arguments, exc, key, error, handler, returned) ==
    [agent |-> agent, tool |-> tool, arguments |-> arguments, exc |-> exc,
     key |-> key, error |-> error, handler |-> handler, returned |-> returned]

NoToolOp ==
    ToolOp("<none>", "<none>", [kind |-> "none", obj |-> EmptyMap], None,
           None, None, NoHandlerCall, None)

\* BaseAgent.execute_tool
ExecuteTool(agent, tool_name, arguments) ==
    LET loaded == JsonLoads(arguments)
    IN  IF loaded.exc # None
        THEN ToolOp(agent, tool_name, arguments, loaded.exc, None, None,
                    NoHandlerCall, None)
        ELSE IF tool_name \notin ToolsOf(agent)
        THEN LET message == "Tool " \o tool_name \o " not found"
             IN  ToolOp(agent, tool_name, arguments, None, "error", message,
                        NoHandlerCall, DumpsError(message))
        ELSE LET h == ToolExecute(tool_name, loaded)
             IN  IF h.exc # None
                 THEN ToolOp(agent, tool_name, arguments, None, "error",
                             h.exc, h, DumpsError(h.exc))
                 ELSE ToolOp(agent, tool_name, arguments, None, "result",
                             None, h, DumpsResult(h.result))

\* tool names a model asks for: the four tools and two that no agent owns
ToolNames ==
    {"search_faq", "get_order_status", "escalate_to_human",
     "get_shipping_info", "lookup_weather", "cancel_order"}

\* the objects a model passes as arguments
ToolArgumentObjects ==
    { EmptyMap,
      [query |-> "shipping"],
      [query |-> "weather"],
      [query |-> Unhashable],
      [order_number |-> "ORD-1"],
      [order_number |-> "ORD-1", user_id |-> "u1"],
      [reason |-> "angry", priority |-> "high"],
      [topic |-> "time"],
      [topic |-> "international"],
      [topic |-> Unhashable],
      [city |-> "Paris"] }

\* tool_call.function.arguments by its class: None, text that is not JSON,
\* JSON that is not an object, a JSON object
ToolArguments ==
    { [kind |-> "none", obj |-> EmptyMap],
      [kind |-> "text", obj |-> EmptyMap],
      [kind |-> "json_other", obj |-> EmptyMap] }
    \cup { [kind |-> "json_object", obj |-> o] : o \in ToolArgumentObjects }

(***************************************************************************)
(* The concrete agents' process                                             *)
(***************************************************************************)
\* numbers in JSON values, written as text
Numbers == {"0.5", "0.9", "0.95"}

\* the objects an agent's model call can answer with
AgentLlmObjects ==
    { EmptyMap,
      [response |-> "We ship in 3-5 days", confidence |-> "0.9"],
      [response |-> "Please call us", confidence |-> "high"],
      [medicines |-> "med-001", total_count |-> "1"],
      [summary |-> "Advil is in stock"],
      [validation_status |-> "valid", confidence |-> "0.95"],
      [validation_status |-> "needs_review", confidence |-> "0.5"],
      [validation_status |-> "valid", confidence |-> "high"],
      [validation_status |-> "valid", extracted_data |-> Unhashable] }

\* what call_llm returns to an agent: {"success": False, "error": str(e),
\* "content": None}, or {"success": True, "content": ...} by the class of
\* the content
AgentLlmResponses ==
    { [success |-> FALSE, kind |-> "none", obj |-> EmptyMap,
       error |-> "Connection error."],
      [success |-> TRUE, kind |-> "none", obj |-> EmptyMap, error |-> None],
      [success |-> TRUE, kind |-> "text", obj |-> EmptyMap, error |-> None],
      [success |-> TRUE, kind |-> "json_other", obj |-> EmptyMap, error |-> None] }
    \cup { [success |-> TRUE, kind |-> "json_object", obj |-> o, error |-> None] :
             o \in AgentLlmObjects }

NoAgentLlm ==
    [success |-> FALSE, kind |-> "<not called>", obj |-> EmptyMap, error |-> None]

\* process returned output, or raised exc
Returns(output) == [exc |-> None, output |-> output]
Raises(exc) == [exc |-> exc, output |-> NoResponse]

\* pydantic validation of AgentOutput.confidence: a float
ConfidenceOk(obj, default) == Get(obj, "confidence", default) \in Numbers

\* the customer_support response that passes the model's error on with no
\* message of its own
CustomerSupportLlmErrorEmpty(r) ==
    AgentOutput(FALSE, EmptyMap, "", "LLM_ERROR", EmptyMap)

\* CustomerSupportAgent.process: the response to a failed model call
CustomerSupportLlmError(r) ==
    AgentOutput(FALSE, EmptyMap, r.error, "LLM_ERROR", EmptyMap)

\* CustomerSupportAgent.process
CustomerSupportProcess(payload, r) ==
    IF ~r.success
    THEN Returns(CustomerSupportLlmError(r))
    ELSE LET loaded == JsonLoads(r)
         IN  CASE loaded.exc = "JSONDecodeError" ->
                    Returns(AgentOutput(TRUE, [response |-> "plain text"],
                                        None, None, EmptyMap))
               [] loaded.exc = "TypeError" ->
                    Raises("the JSON object must be str, bytes or bytearray, not NoneType")
               [] loaded.exc = None /\ ~loaded.is_dict ->
                    Raises("'list' object has no attribute 'get'")
               [] OTHER ->
                    IF ConfidenceOk(loaded.value, "0.5")
                    THEN Returns(AgentOutput(TRUE,
                            [response |-> Get(loaded.value, "response", ""),
                             confidence |-> Get(loaded.value, "confidence", "0.5"),
                             suggested_actions |->
                                 Get(loaded.value, "suggested_actions", "[]"),
                             disclaimer |-> Get(loaded.value, "disclaimer", None)],
                            None, None, EmptyMap))
                    ELSE Raises("1 validation error for AgentOutput: confidence")

\* sample_medicines of _semantic_search
sample_medicines ==
    << [id |-> "med-001", prescription_required |-> FALSE, in_stock |-> TRUE],
       [id |-> "med-002", prescription_required |-> FALSE, in_stock |-> TRUE],
       [id |-> "med-003", prescription_required |-> FALSE, in_stock |-> TRUE],
       [id |-> "med-004", prescription_required |-> FALSE, in_stock |-> TRUE],
       [id |-> "med-005", prescription_required |-> TRUE, in_stock |-> TRUE] >>

SearchFields == {"name", "generic_name", "category", "description"}

\* query_lower in med[field].lower(): the fields of a sample medicine that
\* contain the query
FieldsContaining(query, id) ==
    CASE query = "" -> SearchFields
      [] query = "ibuprofen" ->
           IF id = "med-001" THEN {"generic_name"} ELSE {}
      [] query = "amoxicillin" ->
           IF id = "med-005" THEN {"name", "generic_name"} ELSE {}
      [] query = "relief" ->
           CASE id = "med-001" -> {"category"}
             [] id = "med-002" -> {"category", "description"}
             [] id = "med-003" -> {"name", "description"}
             [] id = "med-004" -> {"description"}
             [] OTHER -> {}
      [] OTHER -> {}

\* the score of a sample medicine
Score(query, id) ==
    LET hit == FieldsContaining(query, id)
    IN  (IF "name" \in hit THEN 10 ELSE 0)
        + (IF "generic_name" \in hit THEN 8 ELSE 0)
        + (IF "category" \in hit THEN 5 ELSE 0)
        + (IF "description" \in hit THEN 3 ELSE 0)

\* min(score / 20, 1.0), in twentieths
ConfidenceScore(query, id) ==
    IF Score(query, id) > 20 THEN 20 ELSE Score(query, id)

\* the loop of _semantic_search: the medicines kept, in catalog order
RECURSIVE Matching(_, _, _)
Matching(query, otc_only, meds) ==
    IF meds = <<>> THEN <<>>
    ELSE LET med == Head(meds)
             rest == Matching(query, otc_only, Tail(meds))
         IN  IF \/ ~med.in_stock
                \/ (otc_only /\ med.prescription_required)
                \/ Score(query, med.id) = 0
             THEN rest
             ELSE <<med.id>> \o rest

\* results.sort(key=confidence_score, reverse=True): a stable sort
RECURSIVE InsertByScore(_, _, _)
InsertByScore(query, id, sorted) ==
    IF sorted = <<>> THEN <<id>>
    ELSE IF ConfidenceScore(query, Head(sorted)) >= ConfidenceScore(query, id)
         THEN <<Head(sorted)>> \o InsertByScore(query, id, Tail(sorted))
         ELSE <<id>> \o sorted

RECURSIVE SortByScore(_, _)
SortByScore(query, ids) ==
    IF ids = <<>> THEN <<>>
    ELSE InsertByScore(query, ids[Len(ids)],
                       SortByScore(query, SubSeq(ids, 1, Len(ids) - 1)))

\* json text of a list of medicines, and of a count
RECURSIVE DumpsIds(_)
DumpsIds(ids) ==
    IF ids = <<>> THEN ""
    ELSE Head(ids) \o (IF Len(ids) > 1 THEN "," ELSE "") \o DumpsIds(Tail(ids))

CountText(n) ==
    CASE n = 0 -> "0" [] n = 1 -> "1" [] n = 2 -> "2" [] n = 3 -> "3"
      [] n = 4 -> "4" [] OTHER -> "5"

\* the filters of a search request: a dict, or a value that is none
FilterDicts == {"{}", "{otc_only}"}

\* MedicineSearchAgent._semantic_search
SemanticSearch(query, otc_only) ==
    LET results == SortByScore(query, Matching(query, otc_only, sample_medicines))
    IN  [found |-> Len(results) > 0, results |-> results, total |-> Len(results)]

\* the data of the answers medicine_search builds itself
NothingFound ==
    [medicines |-> "", total_count |-> "0",
     suggestions |-> "Try a different search term,Browse by category",
     disclaimer |-> "Consult a healthcare professional before using any medication."]

RawResults(search) ==
    [medicines |-> DumpsIds(search.results),
     total_count |-> CountText(search.total),
     suggestions |-> "",
     disclaimer |-> "Consult a healthcare professional before using any medication."]

\* MedicineSearchAgent.process
MedicineSearchProcess(payload, r) ==
    LET query == Get(payload, "query", "")
        filters == Get(payload, "filters", "{}")
    IN  IF filters \notin FilterDicts
        THEN Raises("'list' object has no attribute 'get'")
        ELSE IF query \in {None, Unhashable}
        THEN Raises("object has no attribute 'lower'")
        ELSE LET search == SemanticSearch(query, filters = "{otc_only}")
                 loaded == JsonLoads(r)
             IN  IF ~search.found
                 THEN Returns(AgentOutput(TRUE, NothingFound, None, None, EmptyMap))
                 ELSE IF ~r.success \/ loaded.exc = "JSONDecodeError"
                 THEN Returns(AgentOutput(TRUE, RawResults(search), None, None,
                                          EmptyMap))
                 ELSE IF loaded.exc = "TypeError"
                 THEN Raises("the JSON object must be str, bytes or bytearray, not NoneType")
                 ELSE IF ~loaded.is_dict
                 THEN Raises("1 validation error for AgentOutput: data")
                 ELSE Returns(AgentOutput(TRUE, loaded.value, None, None, EmptyMap))

\* the responses PrescriptionValidationAgent.process builds before parsing
PrescriptionFailure(error, error_code) ==
    AgentOutput(FALSE, EmptyMap, error, error_code, EmptyMap)

\* validation_result.get("confidence", 1.0) < 0.8
BelowReviewThreshold(confidence) == confidence = "0.5"

\* PrescriptionValidationAgent.process; _extract_text_ocr always succeeds
PrescriptionValidationProcess(payload, r) ==
    IF ~Truthy(Get(payload, "prescription_file", None))
    THEN Returns(PrescriptionFailure("No prescription file provided",
                                     "MISSING_FILE"))
    ELSE IF ~r.success
    THEN Returns(PrescriptionFailure("Failed to parse prescription",
                                     "PARSING_ERROR"))
    ELSE LET loaded == JsonLoads(r)
             obj == loaded.value
             status == Get(obj, "validation_status", None)
             needs_review ==
                 \/ status = "needs_review"
                 \/ BelowReviewThreshold(Get(obj, "confidence", "1.0"))
         IN  CASE loaded.exc = "JSONDecodeError" ->
                    Returns(PrescriptionFailure("Invalid validation response format",
                                                "INVALID_RESPONSE"))
               [] loaded.exc = "TypeError" ->
                    Raises("the JSON object must be str, bytes or bytearray, not NoneType")
               [] loaded.exc = None /\ ~loaded.is_dict ->
                    Raises("'list' object has no attribute 'get'")
               [] OTHER ->
                    IF Get(obj, "extracted_data", "{}") = Unhashable
                    THEN Raises("'list' object has no attribute 'get'")
                    ELSE IF /\ status # "needs_review"
                            /\ Get(obj, "confidence", "1.0") \notin Numbers \cup {"1.0"}
                    THEN Raises("'<' not supported between instances of 'str' and 'float'")
                    ELSE IF ~ConfidenceOk(obj, "0.5")
                    THEN Raises("1 validation error for AgentOutput: confidence")
                    ELSE Returns(AgentOutput(TRUE,
                            Merge(obj,
                                  [flags |-> "[]",
                                   requires_pharmacist_review |->
                                       IF needs_review THEN "true" ELSE "false",
                                   controlled_substances_found |-> "[]"]),
                            None, None, EmptyMap))

\* the items of an order request: lists of item dicts, and values that are
\* no such list
ItemLists == {"[]", "[item]", "[item without medicine_id]", "[item quantity 500]"}

\* OrderProcessingAgent._create_order_flow
CreateOrderFlow(payload) ==
    LET items == Get(payload, "items", "[]")
    IN  CASE items = "<int>" -> Raises("'int' object is not iterable")
          [] items = Unhashable -> Raises("'str' object has no attribute 'get'")
          [] items = None -> Raises("'NoneType' object is not iterable")
          [] items = "[item without medicine_id]" ->
               Returns(AgentOutput(FALSE,
                        [errors |-> "Missing medicine_id in item"],
                        "Cart validation failed", "VALIDATION_FAILED", EmptyMap))
          [] items = "[item quantity 500]" ->
               Returns(AgentOutput(FALSE,
                        [unavailable_items |-> "med-001"],
                        "Some items are out of stock", "OUT_OF_STOCK", EmptyMap))
          [] OTHER ->
               Returns(AgentOutput(TRUE,
                        [order_id |-> "ord-1", order_number |-> "ORD-1",
                         status |-> "pending", items |-> items,
                         totals |-> "{...}",
                         next_steps |-> "Complete payment"],
                        None, None, EmptyMap))

\* OrderProcessingAgent.process
OrderProcessingProcess(payload) ==
    LET action == Get(payload, "action", "create")
    IN  CASE action = "create" -> CreateOrderFlow(payload)
          [] action = "update_status" ->
               Returns(AgentOutput(TRUE,
                        [order_id |-> Get(payload, "order_id", None),
                         previous_status |-> "pending",
                         new_status |-> Get(payload, "status", None)],
                        None, None, EmptyMap))
          [] action = "cancel" ->
               Returns(AgentOutput(TRUE,
                        [order_id |-> Get(payload, "order_id", None),
                         status |-> "cancelled",
                         cancellation_reason |->
                             Get(payload, "reason", "Customer request")],
                        None, None, EmptyMap))
          [] OTHER ->
               Returns(AgentOutput(FALSE, EmptyMap, "Unknown action: " \o action,
                                   "INVALID_ACTION", EmptyMap))

\* ComplianceSafetyAgent._detect_pii: texts that match a pattern
HasPii(text) == text = "my ssn is 123-45-6789"

\* ComplianceSafetyAgent._check_drug_safety: len(medicine_ids) > 1
DrugSafety(medicine_ids) ==
    CASE medicine_ids = "<int>" ->
           [exc |-> "object of type 'int' has no len()", has_issues |-> FALSE]
      [] medicine_ids = None ->
           [exc |-> "object of type 'NoneType' has no len()", has_issues |-> FALSE]
      [] OTHER ->
           [exc |-> None, has_issues |-> medicine_ids = "[med-001,med-002]"]

BoolText(b) == IF b THEN "true" ELSE "false"

\* ComplianceSafetyAgent.process
ComplianceSafetyProcess(payload) ==
    LET check_type == Get(payload, "check_type", "full")
        text == Get(payload, "text", "")
        safety == DrugSafety(Get(payload, "medicine_ids", "[]"))
        pii == \E k \in DOMAIN payload : HasPii(payload[k])
    IN  CASE check_type = "pii_detection" ->
               IF text \in {None, Unhashable}
               THEN Raises("expected string or bytes-like object")
               ELSE Returns(AgentOutput(TRUE,
                        [has_pii |-> BoolText(HasPii(text))],
                        None, None, EmptyMap))
          [] check_type = "drug_safety" ->
               IF safety.exc # None
               THEN Raises(safety.exc)
               ELSE Returns(AgentOutput(TRUE,
                        [has_issues |-> BoolText(safety.has_issues)],
                        None, None, EmptyMap))
          [] check_type = "audit" ->
               Returns(AgentOutput(TRUE,
                        [log_id |-> "audit-1", logged |-> "true",
                         action |-> Get(payload, "action", "unknown"),
                         pii_involved |-> Get(payload, "pii_involved", "false")],
                        None, None, EmptyMap))
          [] OTHER ->
               IF "medicine_ids" \in DOMAIN payload /\ safety.exc # None
               THEN Raises(safety.exc)
               ELSE Returns(AgentOutput(TRUE,
                        [compliance_check |-> "passed",
                         safety_check |->
                             IF "medicine_ids" \in DOMAIN payload /\ safety.has_issues
                             THEN "warning" ELSE "passed",
                         flags |-> IF pii THEN "pii_detected_in_payload" ELSE "",
                         audit_log_id |-> "audit-1"],
                        None, None, EmptyMap))

\* the agents that call the model, and those that do not
ConcreteAgents ==
    {"customer_support", "medicine_search", "prescription_validation",
     "order_processing", "compliance_safety"}

LlmAgents == {"customer_support", "medicine_search", "prescription_validation"}

\* the maps over keys with the given values per key
Payloads(values) ==
    UNION { { p \in [D -> UNION { values[k] : k \in DOMAIN values }] :
                \A k \in D : p[k] \in values[k] } :
            D \in SUBSET DOMAIN values }

\* the request payloads sent to each agent
AgentPayloads(agent) ==
    CASE agent = "customer_support" ->
           Payloads([message |-> {"What are your shipping options?", Unhashable}])
      [] agent = "medicine_search" ->
           Payloads([query |-> {"ibuprofen", "relief", "amoxicillin", "aspirin",
                                "", None},
                     filters |-> {"{}", "{otc_only}", Unhashable}])
      [] agent = "prescription_validation" ->
           Payloads([prescription_file |-> {"https://example.com/rx.jpg", "", None},
                     file_type |-> {"image"}])
      [] agent = "order_processing" ->
           Payloads([action |-> {"create", "update_status", "cancel", "refund"},
                     items |-> ItemLists \cup {"<int>", Unhashable, None},
                     order_id |-> {"ord-1"}])
      [] OTHER ->
           Payloads([check_type |-> {"pii_detection", "drug_safety", "audit", "full"},
                     text |-> {"hello", "my ssn is 123-45-6789", None},
                     medicine_ids |-> {"[med-001]", "[med-001,med-002]", "<int>"}])

\* a direct call of a concrete agent's process: the request, the model's
\* answer, the exception that left it or the response it returned
AgentOp(agent, payload, r, outcome) ==
    [agent |-> agent, payload |-> payload, llm |-> r, exc |-> outcome.exc,
     output |-> outcome.output]

NoAgentOp == AgentOp("<none>", EmptyMap, NoAgentLlm, Returns(NoResponse))

\* agent.process(AgentInput(payload=payload)) with the model answering r
AgentProcess(agent, payload, r) ==
    CASE agent = "customer_support" -> CustomerSupportProcess(payload, r)
      [] agent = "medicine_search" -> MedicineSearchProcess(payload, r)
      [] agent = "prescription_validation" ->
           PrescriptionValidationProcess(payload, r)
      [] agent = "order_processing" -> OrderProcessingProcess(payload)
      [] OTHER -> ComplianceSafetyProcess(payload)

(***************************************************************************)
(* OrchestratorAgent._analyze_and_route                                     *)
(***************************************************************************)
\* the table with check_order sent to order_processing
routing_map_order ==
    [search_medicine |-> "medicine_search",
     upload_prescription |-> "prescription_validation",
     check_order |-> "order_processing",
     create_order |-> "order_processing",
     payment |-> "payment",
     track_delivery |-> "delivery",
     general_question |-> "customer_support",
     safety_check |-> "compliance_safety"]

routing_map ==
    [search_medicine |-> "medicine_search",
     upload_prescription |-> "prescription_validation",
     check_order |-> "customer_support",
     create_order |-> "order_processing",
     payment |-> "payment",
     track_delivery |-> "delivery",
     general_question |-> "customer_support",
     safety_check |-> "compliance_safety"]

FallbackDecision ==
    [target_agent |-> "customer_support",
     reasoning |-> "Fallback routing due to analysis failure",
     context_to_pass |-> EmptyMap,
     priority |-> "normal"]

ExplicitDecision(intent) ==
    [target_agent |-> Get(routing_map, intent, "customer_support"),
     reasoning |-> "Explicit intent: " \o intent,
     context_to_pass |-> EmptyMap,
     priority |-> "normal"]

\* the result of the call: exc is the exception that left it (None: it
\* returned), is_dict tells a returned dict from another JSON value, llm
\* whether call_llm was awaited
RouteResult(exc, is_dict, decision, called) ==
    [exc |-> exc, is_dict |-> is_dict, decision |-> decision, llm |-> called]

NoRoute == RouteResult("<not routed>", FALSE, EmptyMap, FALSE)

\* lines 153-166: the model's answer to a decision
ParseDecision(r) ==
    IF r.success
    THEN LET j == JsonLoads(r)
         IN  CASE j.exc = None -> RouteResult(None, j.is_dict, j.value, TRUE)
               [] j.exc = "JSONDecodeError" ->
                     RouteResult(None, TRUE, FallbackDecision, TRUE)
               [] OTHER -> RouteResult(j.exc, FALSE, EmptyMap, TRUE)
    ELSE RouteResult(None, TRUE, FallbackDecision, TRUE)

AnalyzeAndRoute(payload, r) ==
    LET intent == Get(payload, "intent", None)
    IN  IF Truthy(intent)
        THEN IF intent = Unhashable
             THEN RouteResult("unhashable type: 'list'", FALSE, EmptyMap, FALSE)
             ELSE RouteResult(None, TRUE, ExplicitDecision(intent), FALSE)
        ELSE ParseDecision(r)

(***************************************************************************)
(* OrchestratorAgent.process                                                *)
(***************************************************************************)
\* the error response without the elapsed time
OrchestrationErrorNoLatency(exc, latency_ms) ==
    AgentOutput(FALSE, EmptyMap, exc, "ORCHESTRATION_ERROR", EmptyMap)

\* the except clause, lines 106-113
OrchestrationError(exc, latency_ms) ==
    AgentOutput(FALSE, EmptyMap, exc, "ORCHESTRATION_ERROR",
                [latency_ms |-> latency_ms])

\* the not-found response without the routing decision
AgentNotFoundBare(target, decision) ==
    AgentOutput(FALSE, EmptyMap,
                "Agent " \o target \o " not found", "AGENT_NOT_FOUND", EmptyMap)

\* lines 82-87
AgentNotFound(target, decision) ==
    AgentOutput(FALSE, [routing_decision |-> decision],
                "Agent " \o target \o " not found", "AGENT_NOT_FOUND", EmptyMap)

\* lines 93-94
Annotate(result, decision) ==
    [result EXCEPT !.metadata =
        Merge(@, [routing |-> decision, orchestrated_at |-> "utcnow"])]

\* the merge with the caller's payload winning over the decision's context
DispatchPayloadWins(reg, payload, rt) ==
    IF ~rt.is_dict
    THEN [exc |-> "'list' object has no attribute 'get'", merged |-> payload,
          target |-> None, found |-> FALSE]
    ELSE LET target == Get(rt.decision, "target_agent", "customer_support")
             context == Get(rt.decision, "context_to_pass", EmptyMap)
         IN  IF context = NotAMapping
             THEN [exc |-> "'str' object is not a mapping", merged |-> payload,
                   target |-> target, found |-> FALSE]
             ELSE LET merged == Merge(context, payload)
                      got == RegistryGet(reg, target)
                  IN  [exc |-> got.exc, merged |-> merged, target |-> target,
                       found |-> got.exc = None /\ got.agent # None]

\* lines 71-87, from the routing decision to the target agent; exc is the
\* exception raised on the way, found tells whether the registry had the agent
Dispatch(reg, payload, rt) ==
    IF ~rt.is_dict
    THEN [exc |-> "'list' object has no attribute 'get'", merged |-> payload,
          target |-> None, found |-> FALSE]
    ELSE LET target == Get(rt.decision, "target_agent", "customer_support")
             context == Get(rt.decision, "context_to_pass", EmptyMap)
         IN  IF context = NotAMapping
             THEN [exc |-> "'str' object is not a mapping", merged |-> payload,
                   target |-> target, found |-> FALSE]
             ELSE LET merged == Merge(payload, context)
                      got == RegistryGet(reg, target)
                  IN  [exc |-> got.exc, merged |-> merged, target |-> target,
                       found |-> got.exc = None /\ got.agent # None]

\* payloads of the requests callers send
Intents == (DOMAIN routing_map) \cup {"refill", "", Unhashable}

RequestPayloads ==
    { p \in UNION { [D -> Intents \cup {"Find ibuprofen", "1"}] :
                        D \in SUBSET {"intent", "message", "x"} } :
        /\ "intent" \in DOMAIN p => p["intent"] \in Intents
        /\ "message" \in DOMAIN p => p["message"] = "Find ibuprofen"
        /\ "x" \in DOMAIN p => p["x"] = "1" }

\* data an agent answers with
AgentData == { EmptyMap, [x |-> "2"], [x |-> "3", y |-> "4"] }

\* what a target agent's process does: it returns an AgentOutput or raises
AgentOutcomes ==
    { [exc |-> None, output |-> AgentOutput(TRUE, d, None, None, EmptyMap)] :
        d \in AgentData }
    \cup { [exc |-> None,
            output |-> AgentOutput(FALSE, d, "LLM call failed", "LLM_ERROR", EmptyMap)] :
        d \in AgentData }
    \cup { [exc |-> "the JSON object must be str, bytes or bytearray, not NoneType",
            output |-> NoResponse] }

\* what a target agent's process does when process awaits it: as above, or
\* it returns None instead of an AgentOutput
ProcessOutcomes == AgentOutcomes \cup { [exc |-> None, output |-> NoResponse] }

\* lines 93-94 on what the agent returned: the exception raised, if any
AnnotateExc(o) ==
    IF o.exc = None /\ o.output = NoResponse
    THEN "'NoneType' object has no attribute 'metadata'"
    ELSE None

\* what happened at lines 90-102 of process: the outcome of the target
\* agent's process, of the annotation and, when it was reached, of log_action
\* (None: no exception)
Ret(o, log) ==
    [called |-> TRUE, agent |-> o, annotate |-> AnnotateExc(o),
     log |-> IF o.exc # None \/ AnnotateExc(o) # None THEN None ELSE log]

NoRet == [called |-> FALSE, agent |-> [exc |-> None, output |-> NoResponse],
          annotate |-> None, log |-> None]

\* int((time.time() - start_time) * 1000)
ElapsedMs == {0, 12}

\* what self.logger.info does in log_action: it returns or raises
LogOutcomes == {None, "log sink failed"}

\* a caller (chat endpoint, test) calls process(input_data)
ProcessReceive ==
    /\ pc = "idle"
    /\ \E p \in RequestPayloads :
         /\ callerPayload' = p
         /\ inputPayload' = p
    /\ pc' = "received"
    /\ agentOp' = NoAgentOp
    /\ UNCHANGED <<regLog, regOp, toolOp, ret, frames>>
    /\ UNCHANGED <<registry, llm, route, agentCalls, response, raised,
                   wfSteps, wfIdx, wfContext, wfResults>>
    /\ UNCHANGED chatVars

\* lines 65-69: routing_decision = await self._analyze_and_route(input_data)
ProcessRoute ==
    /\ pc = "received"
    /\ \E r \in LlmResponses, ms \in ElapsedMs :
         LET rt == AnalyzeAndRoute(inputPayload, r)
         IN  /\ route' = rt
             /\ llm' = IF rt.llm THEN r ELSE NoLlm
             /\ IF rt.exc # None
                THEN /\ response' = OrchestrationError(rt.exc, ms)
                     /\ pc' = "returned"
                ELSE /\ response' = response
                     /\ pc' = "routed"
    /\ UNCHANGED <<regLog, regOp, toolOp, agentOp, ret, frames>>
    /\ UNCHANGED <<registry, callerPayload, inputPayload, agentCalls, raised,
                   wfSteps, wfIdx, wfContext, wfResults>>
    /\ UNCHANGED chatVars

\* lines 71-90: merge the context, look the agent up, call its process
ProcessDispatch ==
    /\ pc = "routed"
    /\ \E ms \in ElapsedMs :
         LET d == Dispatch(registry, inputPayload, route)
         IN  IF d.exc # None
             THEN /\ response' = OrchestrationError(d.exc, ms)
                  /\ pc' = "returned"
                  /\ UNCHANGED <<inputPayload, agentCalls>>
             ELSE /\ inputPayload' = d.merged
                  /\ IF d.found
                     THEN /\ agentCalls' = Append(agentCalls,
                                [agent |-> registry[d.target], payload |-> d.merged])
                          /\ pc' = "dispatched"
                          /\ response' = response
                     ELSE /\ response' = AgentNotFound(d.target, route.decision)
                          /\ pc' = "returned"
                          /\ agentCalls' = agentCalls
    /\ UNCHANGED <<regLog, regOp, toolOp, agentOp, ret, frames>>
    /\ UNCHANGED <<registry, callerPayload, llm, route, raised,
                   wfSteps, wfIdx, wfContext, wfResults>>
    /\ UNCHANGED chatVars

\* nested process calls the interpreter's stack holds before it is exhausted
MaxDepth == 2

\* the agent found at line 79 is the orchestrator itself: register_agents
\* registers it under "orchestrator"
TargetIsOrchestrator ==
    /\ agentCalls # <<>>
    /\ agentCalls[Len(agentCalls)].agent = "orchestrator"

\* what a frame of process keeps across line 90: its routing decision, and
\* for the record the payload it was called with and the agents it invoked
Frame(rt, r, payload, calls) ==
    [route |-> rt, llm |-> r, payload |-> payload, calls |-> calls]

\* what the interpreter does when the stack is exhausted at line 90
StackOutcomes == {"RecursionError", "abort"}

\* lines 90-104 without the except clause: the agent's exception leaves process
ProcessAgentReturnUncaught ==
    /\ pc = "dispatched"
    /\ ~TargetIsOrchestrator
    /\ \E o \in ProcessOutcomes, log \in LogOutcomes, ms \in ElapsedMs :
         /\ raised' = (o.exc # None)
         /\ response' =
               IF o.exc # None THEN response
               ELSE IF AnnotateExc(o) # None
               THEN OrchestrationError(AnnotateExc(o), ms)
               ELSE IF log # None THEN OrchestrationError(log, ms)
               ELSE Annotate(o.output, route.decision)
         /\ ret' = Ret(o, log)
    /\ pc' = "returned"
    /\ UNCHANGED <<regLog, regOp, toolOp, agentOp, frames>>
    /\ UNCHANGED <<registry, callerPayload, inputPayload, llm, route, agentCalls,
                   wfSteps, wfIdx, wfContext, wfResults>>
    /\ UNCHANGED chatVars

\* lines 90-104: the agent answers, the result is annotated, logged, returned
ProcessAgentReturn ==
    /\ pc = "dispatched"
    /\ ~TargetIsOrchestrator
    /\ \E o \in ProcessOutcomes, log \in LogOutcomes, ms \in ElapsedMs :
         /\ response' =
               IF o.exc # None THEN OrchestrationError(o.exc, ms)
               ELSE IF AnnotateExc(o) # None
               THEN OrchestrationError(AnnotateExc(o), ms)
               ELSE IF log # None THEN OrchestrationError(log, ms)
               ELSE Annotate(o.output, route.decision)
         /\ ret' = Ret(o, log)
    /\ pc' = "returned"
    /\ UNCHANGED <<regLog, regOp, toolOp, agentOp, frames>>
    /\ UNCHANGED <<registry, callerPayload, inputPayload, llm, route, agentCalls,
                   raised, wfSteps, wfIdx, wfContext, wfResults>>
    /\ UNCHANGED chatVars

\* line 90 when target_agent is the orchestrator: process is entered again
\* with the same input_data
ProcessReenter ==
    /\ pc = "dispatched"
    /\ TargetIsOrchestrator
    /\ Len(frames) < MaxDepth
    /\ frames' = <<Frame(route, llm, callerPayload, agentCalls)>> \o frames
    /\ pc' = "received"
    /\ route' = NoRoute
    /\ llm' = NoLlm
    /\ callerPayload' = inputPayload
    /\ agentCalls' = <<>>
    /\ UNCHANGED <<regLog, regOp, toolOp, agentOp, ret>>
    /\ UNCHANGED <<registry, inputPayload, response,
                   raised, wfSteps, wfIdx, wfContext, wfResults>>
    /\ UNCHANGED chatVars

\* lines 90-104 of the calling frame: the nested process returned its response
ProcessInnerReturn ==
    /\ pc = "returned"
    /\ frames # <<>>
    /\ \E log \in LogOutcomes, ms \in ElapsedMs :
         /\ response' =
               IF log # None THEN OrchestrationError(log, ms)
               ELSE Annotate(response, Head(frames).route.decision)
         /\ ret' = Ret(Returns(response), log)
    /\ route' = Head(frames).route
    /\ llm' = Head(frames).llm
    /\ callerPayload' = Head(frames).payload
    /\ agentCalls' = Head(frames).calls \o agentCalls
    /\ frames' = Tail(frames)
    /\ pc' = "returned"
    /\ UNCHANGED <<regLog, regOp, toolOp, agentOp>>
    /\ UNCHANGED <<registry, inputPayload,
                   raised, wfSteps, wfIdx, wfContext, wfResults>>
    /\ UNCHANGED chatVars

\* line 90 when no further frame fits: RecursionError is raised and caught at
\* line 106, or the interpreter aborts on the stack overflow
StackExhausted ==
    /\ pc = "dispatched"
    /\ TargetIsOrchestrator
    /\ Len(frames) >= MaxDepth
    /\ \E out \in StackOutcomes, ms \in ElapsedMs :
         IF out = "RecursionError"
         THEN /\ response' =
                    OrchestrationError("maximum recursion depth exceeded", ms)
              /\ ret' = Ret(Raises("maximum recursion depth exceeded"), None)
              /\ pc' = "returned"
         ELSE /\ pc' = "aborted"
              /\ UNCHANGED <<response, ret>>
    /\ UNCHANGED <<regLog, regOp, toolOp, agentOp, frames>>
    /\ UNCHANGED <<registry, callerPayload, inputPayload, llm, route, agentCalls,
                   raised, wfSteps, wfIdx, wfContext, wfResults>>
    /\ UNCHANGED chatVars

(***************************************************************************)
(* OrchestratorAgent.execute_workflow                                       *)
(***************************************************************************)
MaxSteps == 3

\* step descriptions: "agent", optional "payload" overrides, optional flag
StepPool ==
    { [agent |-> "medicine_search"],
      [agent |-> "customer_support", payload |-> [x |-> "7"]],
      [agent |-> "order_processing", payload |-> [w |-> "8"],
       continue_on_error |-> TRUE],
      [agent |-> "compliance_safety", continue_on_error |-> FALSE],
      [agent |-> "delivery", continue_on_error |-> TRUE],
      [payload |-> [x |-> "7"]] }

WorkflowSteps == UNION { [1..n -> StepPool] : n \in 0..MaxSteps }

WorkflowPayloads == { EmptyMap, [x |-> "1", z |-> "5"] }

\* the merge with the accumulated context winning over the overrides
StepPayloadContextWins(context, step) ==
    Merge(Get(step, "payload", EmptyMap), context)

\* line 193: payload={**context, **step.get("payload", {})}
StepPayload(context, step) == Merge(context, Get(step, "payload", EmptyMap))

\* a failed step that never aborts, and one that always does
StepAbortsNever(result, step) == FALSE
StepAbortsOnAnyFailure(result, step) == ~result.success

\* line 199: not result.success and not step.get("continue_on_error")
StepAborts(result, step) ==
    ~result.success /\ ~Get(step, "continue_on_error", FALSE)

\* the update with the data of failed steps left out
UpdateContextOnSuccess(context, result) ==
    IF result.success THEN Merge(context, result.data) ELSE context

\* line 208: context.update(result.data)
UpdateContext(context, result) == Merge(context, result.data)

\* the missing agent reported as an ordinary step failure
WorkflowAgentMissingAsFailed(agent_type) ==
    AgentOutput(FALSE, EmptyMap, "Workflow failed at step " \o agent_type,
                "WORKFLOW_FAILED", EmptyMap)

\* lines 183-187
WorkflowAgentMissing(agent_type) ==
    AgentOutput(FALSE, EmptyMap, "Agent " \o agent_type \o " not found in workflow",
                "WORKFLOW_AGENT_MISSING", EmptyMap)

\* lines 200-205
WorkflowFailed(agent_type, results) ==
    AgentOutput(FALSE, [results |-> results],
                "Workflow failed at step " \o agent_type, "WORKFLOW_FAILED", EmptyMap)

\* the success response with the last step's result only
WorkflowDoneLastOnly(workflow_name, results, context) ==
    AgentOutput(TRUE,
                [workflow |-> workflow_name,
                 results |-> IF results = <<>> THEN <<>>
                             ELSE <<results[Len(results)]>>,
                 final_context |-> context],
                None, None, EmptyMap)

\* lines 210-217
WorkflowDone(workflow_name, results, context) ==
    AgentOutput(TRUE,
                [workflow |-> workflow_name, results |-> results,
                 final_context |-> context],
                None, None, EmptyMap)

\* lines 175-176: a caller calls execute_workflow(name, input_data, steps)
WorkflowStart ==
    /\ pc = "idle"
    /\ \E p \in WorkflowPayloads, steps \in WorkflowSteps :
         /\ callerPayload' = p
         /\ inputPayload' = p
         /\ wfContext' = p
         /\ wfSteps' = steps
    /\ wfResults' = <<>>
    /\ wfIdx' = 1
    /\ pc' = "wf_loop"
    /\ agentOp' = NoAgentOp
    /\ UNCHANGED <<regLog, regOp, toolOp, ret, frames>>
    /\ UNCHANGED <<registry, llm, route, agentCalls, response, raised>>
    /\ UNCHANGED chatVars

\* lines 178-196 and 210-217: the head of the loop, up to the agent's call
WorkflowStep ==
    /\ pc = "wf_loop"
    /\ IF wfIdx > Len(wfSteps)
       THEN /\ response' = WorkflowDone("order_flow", wfResults, wfContext)
            /\ pc' = "wf_returned"
            /\ UNCHANGED <<agentCalls, raised>>
       ELSE LET step == wfSteps[wfIdx]
            IN  IF "agent" \notin DOMAIN step
                THEN /\ raised' = TRUE
                     /\ pc' = "wf_returned"
                     /\ UNCHANGED <<agentCalls, response>>
                ELSE LET got == RegistryGet(registry, step["agent"])
                     IN  IF got.agent = None
                         THEN /\ response' = WorkflowAgentMissing(step["agent"])
                              /\ pc' = "wf_returned"
                              /\ UNCHANGED <<agentCalls, raised>>
                         ELSE /\ agentCalls' = Append(agentCalls,
                                    [agent |-> got.agent,
                                     payload |-> StepPayload(wfContext, step)])
                              /\ pc' = "wf_await"
                              /\ UNCHANGED <<response, raised>>
    /\ UNCHANGED <<regLog, regOp, toolOp, agentOp, ret, frames>>
    /\ UNCHANGED <<registry, callerPayload, inputPayload, llm, route,
                   wfSteps, wfIdx, wfContext, wfResults>>
    /\ UNCHANGED chatVars

\* lines 196-208: the step's agent answers
WorkflowAgentReturn ==
    /\ pc = "wf_await"
    /\ \E o \in AgentOutcomes :
         LET step == wfSteps[wfIdx]
             results == Append(wfResults,
                               [agent |-> step["agent"], result |-> o.output])
         IN  IF o.exc # None
             THEN /\ raised' = TRUE
                  /\ pc' = "wf_returned"
                  /\ UNCHANGED <<response, wfIdx, wfContext, wfResults>>
             ELSE /\ wfResults' = results
                  /\ raised' = raised
                  /\ IF StepAborts(o.output, step)
                     THEN /\ response' = WorkflowFailed(step["agent"], results)
                          /\ pc' = "wf_returned"
                          /\ UNCHANGED <<wfIdx, wfContext>>
                     ELSE /\ wfContext' = UpdateContext(wfContext, o.output)
                          /\ wfIdx' = wfIdx + 1
                          /\ pc' = "wf_loop"
                          /\ response' = response
    /\ UNCHANGED <<regLog, regOp, toolOp, agentOp, ret, frames>>
    /\ UNCHANGED <<registry, callerPayload, inputPayload, llm, route, agentCalls, wfSteps>>
    /\ UNCHANGED chatVars

\* the caller takes the response; the next call starts from scratch
Complete ==
    /\ pc \in {"returned", "wf_returned"}
    /\ frames = <<>>
    /\ pc' = "idle"
    /\ callerPayload' = EmptyMap
    /\ inputPayload' = EmptyMap
    /\ llm' = NoLlm
    /\ route' = NoRoute
    /\ agentCalls' = <<>>
    /\ response' = NoResponse
    /\ raised' = FALSE
    /\ wfSteps' = <<>>
    /\ wfIdx' = 1
    /\ wfContext' = EmptyMap
    /\ wfResults' = <<>>
    /\ ret' = NoRet
    /\ UNCHANGED <<registry, regLog, regOp, toolOp, agentOp, frames>>
    /\ UNCHANGED chatVars

\* main.py lifespan: register_agents()
RegisterAgents ==
    /\ pc = "idle"
    /\ registry' = Merge(registry, RegisteredAgents)
    /\ registry' # registry
    /\ regLog' = regLog \o RegisterAgentsCalls
    /\ regOp' = RegOp("register", "compliance_safety", None, None, {})
    /\ UNCHANGED <<callVars, toolOp, agentOp>>
    /\ UNCHANGED chatVars

(***************************************************************************)
(* Calls on the registry: register, get, list_agents                        *)
(***************************************************************************)
MaxRegisterCalls == 2

\* ids and agent instances of the register and get calls made outside
\* register_agents (tests, a second bootstrap)
RegistryIds == {"customer_support", "payment", Unhashable}
RegistryInstances == {"customer_support", "stub_agent"}

SingleRegisterCalls ==
    Cardinality({ i \in DOMAIN regLog : regLog[i].by = "register" })

\* agent_registry.register(agent_type, agent)
RegistryRegister ==
    /\ pc = "idle"
    /\ SingleRegisterCalls < MaxRegisterCalls
    /\ \E id \in RegistryIds \ {Unhashable}, a \in RegistryInstances :
         /\ registry' = Register(registry, id, a)
         /\ regLog' = Append(regLog,
                            [agent_type |-> id, agent |-> a, by |-> "register"])
         /\ regOp' = RegOp("register", id, None, None, {})
    /\ UNCHANGED <<callVars, toolOp, agentOp>>
    /\ UNCHANGED chatVars

\* agent_registry.get(agent_type)
RegistryLookup ==
    /\ pc = "idle"
    /\ \E id \in RegistryIds :
         LET got == RegistryGet(registry, id)
         IN  regOp' = RegOp("get", id, got.exc, got.agent, {})
    /\ UNCHANGED <<registry, callVars, regLog, toolOp, agentOp>>
    /\ UNCHANGED chatVars

\* agent_registry.list_agents()
RegistryList ==
    /\ pc = "idle"
    /\ regOp' = RegOp("list", None, None, None, ListAgents(registry))
    /\ UNCHANGED <<registry, callVars, regLog, toolOp, agentOp>>
    /\ UNCHANGED chatVars

(***************************************************************************)
(* Direct calls of the concrete agents                                      *)
(***************************************************************************)
\* a caller (test, API handler) calls agent.process(input_data)
AgentProcessCall ==
    /\ pc = "idle"
    /\ \E agent \in ConcreteAgents :
         \E payload \in AgentPayloads(agent),
            r \in (IF agent \in LlmAgents THEN AgentLlmResponses
                                          ELSE {NoAgentLlm}) :
            agentOp' = AgentOp(agent, payload, r, AgentProcess(agent, payload, r))
    /\ UNCHANGED <<registry, callVars, regLog, regOp, toolOp>>
    /\ UNCHANGED chatVars

(***************************************************************************)
(* Calls of execute_tool                                                    *)
(***************************************************************************)
\* agent.execute_tool(tool_call)
ExecuteToolCall ==
    /\ pc = "idle"
    /\ \E agent \in ToolAgents, tool_name \in ToolNames,
          arguments \in ToolArguments :
         toolOp' = ExecuteTool(agent, tool_name, arguments)
    /\ UNCHANGED <<registry, callVars, regLog, regOp, agentOp>>
    /\ UNCHANGED chatVars

(***************************************************************************)
(* The chat WebSocket endpoint (api/chat.py)                                *)
(***************************************************************************)
\* connections accepted over a run
MaxConnections == 3

\* the WebSocket objects, in the order they are accepted
ConnIds == 1..MaxConnections

\* the user_id path parameter
UserIds == {"u1", "u2"}

\* send_message found no entry for the user_id: nothing is sent
Dropped == 0

NoSend == [kind |-> "<none>", from |-> Dropped, to |-> Dropped]

\* a connection no client has opened yet
NewSocket == [user |-> None, at |-> "new"]

\* ConnectionManager.connect, line 50
Connect(conns, websocket, user_id) ==
    Merge(conns, [u \in {user_id} |-> websocket])

\* ConnectionManager.disconnect, lines 52-54
Disconnect(conns, user_id) ==
    [u \in (DOMAIN conns) \ {user_id} |-> conns[u]]

\* ConnectionManager.send_message, lines 56-58: the websocket send_json is
\* called on
SendMessage(conns, user_id) ==
    IF user_id \in DOMAIN conns THEN conns[user_id] ELSE Dropped

\* line 164: a client opens /ws/{user_id}; the handler reaches receive_json
WsConnect ==
    /\ \E c \in ConnIds, user_id \in UserIds :
         /\ sockets[c].at = "new"
         /\ \A b \in ConnIds : b < c => sockets[b].at # "new"
         /\ sockets' = [sockets EXCEPT ![c] = [user |-> user_id, at |-> "receive"]]
         /\ active_connections' = Connect(active_connections, c, user_id)
    /\ UNCHANGED wsSent
    /\ UNCHANGED <<registry, callVars, regLog, regOp, toolOp, agentOp>>

\* lines 169-182: a JSON object arrives; orchestrator.process is awaited
WsReceive ==
    /\ \E c \in ConnIds :
         /\ sockets[c].at = "receive"
         /\ sockets' = [sockets EXCEPT ![c].at = "process"]
    /\ UNCHANGED <<active_connections, wsSent>>
    /\ UNCHANGED <<registry, callVars, regLog, regOp, toolOp, agentOp>>

\* lines 182-195: process returned; the response goes to send_message and the
\* handler is back at receive_json
WsRespond ==
    /\ \E c \in ConnIds :
         /\ sockets[c].at = "process"
         /\ wsSent' = [kind |-> "agent_response", from |-> c,
                       to |-> SendMessage(active_connections, sockets[c].user)]
         /\ sockets' = [sockets EXCEPT ![c].at = "receive"]
    /\ UNCHANGED active_connections
    /\ UNCHANGED <<registry, callVars, regLog, regOp, toolOp, agentOp>>

\* lines 169, 197-198: the client closed the connection; receive_json raises
\* WebSocketDisconnect
WsDisconnect ==
    /\ \E c \in ConnIds :
         /\ sockets[c].at = "receive"
         /\ active_connections' = Disconnect(active_connections, sockets[c].user)
         /\ sockets' = [sockets EXCEPT ![c].at = "closed"]
    /\ UNCHANGED wsSent
    /\ UNCHANGED <<registry, callVars, regLog, regOp, toolOp, agentOp>>

\* lines 169-179, 199-204: the message is no JSON object, or its context no
\* mapping; the error is sent and the handler ends
WsBadMessage ==
    /\ \E c \in ConnIds :
         /\ sockets[c].at = "receive"
         /\ wsSent' = [kind |-> "error", from |-> c,
                       to |-> SendMessage(active_connections, sockets[c].user)]
         /\ active_connections' = Disconnect(active_connections, sockets[c].user)
         /\ sockets' = [sockets EXCEPT ![c].at = "closed"]
    /\ UNCHANGED <<registry, callVars, regLog, regOp, toolOp, agentOp>>

Init ==
    /\ registry = EmptyMap
    /\ pc = "idle"
    /\ callerPayload = EmptyMap
    /\ inputPayload = EmptyMap
    /\ llm = NoLlm
    /\ route = NoRoute
    /\ agentCalls = <<>>
    /\ response = NoResponse
    /\ raised = FALSE
    /\ wfSteps = <<>>
    /\ wfIdx = 1
    /\ wfContext = EmptyMap
    /\ wfResults = <<>>
    /\ regLog = <<>>
    /\ regOp = NoRegOp
    /\ toolOp = NoToolOp
    /\ agentOp = NoAgentOp
    /\ ret = NoRet
    /\ frames = <<>>
    /\ active_connections = EmptyMap
    /\ sockets = [c \in ConnIds |-> NewSocket]
    /\ wsSent = NoSend

Next ==
    \/ RegisterAgents
    \/ ProcessReceive
    \/ ProcessRoute
    \/ ProcessDispatch
    \/ ProcessAgentReturn
    \/ ProcessReenter
    \/ ProcessInnerReturn
    \/ StackExhausted
    \/ WorkflowStart
    \/ WorkflowStep
    \/ WorkflowAgentReturn
    \/ Complete

Spec == Init /\ [][Next]_vars

\* the registry alone, under any sequence of its calls
NextRegistry ==
    \/ RegisterAgents
    \/ RegistryRegister
    \/ RegistryLookup
    \/ RegistryList

SpecRegistry == Init /\ [][NextRegistry]_vars

\* execute_tool alone, under any sequence of tool calls
NextTools == ExecuteToolCall

SpecTools == Init /\ [][NextTools]_vars

\* the concrete agents alone, under any sequence of direct calls
NextAgents == AgentProcessCall

SpecAgents == Init /\ [][NextAgents]_vars

\* the orchestrator and the concrete agents together
NextEnvelopes ==
    \/ Next
    \/ AgentProcessCall

SpecEnvelopes == Init /\ [][NextEnvelopes]_vars

\* the chat WebSocket endpoint, under any interleaving of its connections
NextChat ==
    \/ WsConnect
    \/ WsReceive
    \/ WsRespond
    \/ WsDisconnect
    \/ WsBadMessage

SpecChat == Init /\ [][NextChat]_vars

\* the event loop runs every step of a call in progress
SpecLive == Spec /\ WF_vars(Next)

(***************************************************************************)
(* Properties of OrchestratorAgent.process                                  *)
(***************************************************************************)
InProcess == pc \in {"received", "routed", "dispatched", "returned"}

\* _analyze_and_route has run for the request in progress
Routed == pc \in {"routed", "dispatched", "returned"}

\* it returned a dict (a routing decision)
DecisionProduced == Routed /\ route.exc = None /\ route.is_dict

TargetOf(decision) == Get(decision, "target_agent", "customer_support")

IsMap(d) == DOMAIN d \subseteq STRING

EnvelopeFields == {"success", "data", "error", "error_code", "metadata"}

\* C1: for every request, every outcome of the routing model call and every
\* behaviour of the target agent (success, failure, exception), process
\* returns a response envelope and never raises, and a response with
\* success=true carries a data map.
C1_TotalRouting ==
    /\ InProcess => ~raised
    /\ pc = "returned" =>
          /\ response # NoResponse
          /\ DOMAIN response = EnvelopeFields
          /\ response.success \in BOOLEAN
          /\ IsMap(response.metadata)
          /\ response.success => IsMap(response.data)

\* C1 witness: the target agent was invoked and raised, or the log sink did,
\* and the caller still got a response
C1_Witness ==
    /\ pc = "returned"
    /\ Len(agentCalls) = 1
    /\ response.error_code = "ORCHESTRATION_ERROR"

\* C2: a request whose payload.intent is a key of the static routing table is
\* routed to that table entry with priority normal and an empty
\* context_to_pass, and the model is not invoked for routing.
C2_ExplicitIntent ==
    (/\ Routed
     /\ "intent" \in DOMAIN callerPayload
     /\ callerPayload["intent"] \in
           {"search_medicine", "upload_prescription", "check_order",
            "create_order", "payment", "track_delivery", "general_question",
            "safety_check"})
    => /\ DecisionProduced
       /\ DOMAIN route.decision =
             {"target_agent", "reasoning", "context_to_pass", "priority"}
       /\ route.decision["target_agent"] =
             CASE callerPayload["intent"] = "search_medicine" -> "medicine_search"
               [] callerPayload["intent"] = "upload_prescription" -> "prescription_validation"
               [] callerPayload["intent"] = "check_order" -> "customer_support"
               [] callerPayload["intent"] = "create_order" -> "order_processing"
               [] callerPayload["intent"] = "payment" -> "payment"
               [] callerPayload["intent"] = "track_delivery" -> "delivery"
               [] callerPayload["intent"] = "general_question" -> "customer_support"
               [] callerPayload["intent"] = "safety_check" -> "compliance_safety"
       /\ route.decision["priority"] = "normal"
       /\ route.decision["context_to_pass"] = EmptyMap
       /\ ~route.llm
       /\ llm = NoLlm

\* C2 witness: upload_prescription reached prescription_validation
C2_Witness ==
    /\ pc = "returned"
    /\ Get(callerPayload, "intent", None) = "upload_prescription"
    /\ Len(agentCalls) = 1
    /\ agentCalls[1].agent = "prescription_validation"
    /\ response.success

\* the routing model call failed, or its content is no structured decision
UnusableAnswer ==
    \/ ~llm.success
    \/ llm.kind \in {"none", "text", "json_other"}

\* C3: without an explicit intent, if the routing model call fails or returns
\* content that cannot be parsed as a structured decision, the decision is
\* exactly the fallback (customer_support, priority normal, a reasoning that
\* notes the fallback) and the request is dispatched to customer_support.
C3_FallbackOnUnusableAnswer ==
    (Routed /\ route.llm /\ UnusableAnswer)
    => /\ DecisionProduced
       /\ route.decision = FallbackDecision
       /\ (pc \in {"dispatched", "returned"} /\ "customer_support" \in DOMAIN registry)
             => /\ Len(agentCalls) = 1
                /\ agentCalls[1].agent = registry["customer_support"]

\* C4: whatever the routing model call yields, routing resolves a target
\* agent, and the only failure response that leaves process before an agent
\* was called is AGENT_NOT_FOUND.
C4_RoutingAlwaysResolves ==
    (Routed /\ route.llm)
    => /\ DecisionProduced
       /\ (pc = "returned" /\ agentCalls = <<>>)
             => response.error_code = "AGENT_NOT_FOUND"

\* the decision can be looked up: its context is a mapping, its target a key
LookupReached ==
    /\ DecisionProduced
    /\ Get(route.decision, "context_to_pass", EmptyMap) # NotAMapping
    /\ TargetOf(route.decision) # Unhashable

\* C5: if the registry has no entry for the decision's target agent id, the
\* response is success=false, AGENT_NOT_FOUND, with data.routing_decision
\* equal to the routing decision, and no agent's process is invoked.
C5_UnknownAgent ==
    (/\ pc \in {"dispatched", "returned"}
     /\ LookupReached
     /\ TargetOf(route.decision) \notin DOMAIN registry)
    => /\ pc = "returned"
       /\ response.success = FALSE
       /\ response.error_code = "AGENT_NOT_FOUND"
       /\ response.error # ""
       /\ "routing_decision" \in DOMAIN response.data
       /\ response.data["routing_decision"] = route.decision
       /\ agentCalls = <<>>

\* C5 witness: after register_agents, intent payment names an agent that is
\* not registered
C5_Witness ==
    /\ pc = "returned"
    /\ registry = RegisteredAgents
    /\ Get(callerPayload, "intent", None) = "payment"
    /\ response.error_code = "AGENT_NOT_FOUND"

\* C6: every response of a request whose routing decision was produced
\* carries that decision under metadata.routing and an orchestration
\* timestamp, whatever the outcome (agent succeeded, failed, not found).
C6_AuditTrail ==
    (pc = "returned" /\ DecisionProduced)
    => /\ "routing" \in DOMAIN response.metadata
       /\ response.metadata["routing"] = route.decision
       /\ "orchestrated_at" \in DOMAIN response.metadata

(***************************************************************************)
(* Properties of OrchestratorAgent.execute_workflow                         *)
(***************************************************************************)
InWorkflow == pc \in {"wf_loop", "wf_await", "wf_returned"}

Overrides(step) == Get(step, "payload", EmptyMap)

ContinueOnError(step) == Get(step, "continue_on_error", FALSE)

Largest(S) == CHOOSE m \in S : \A j \in S : j <= m

\* the steps among the first n whose response data holds the key
Writers(key, n) == { j \in 1..n : key \in DOMAIN wfResults[j].result.data }

\* the initial payload with every key taking the value of the last of the
\* first n steps that returned it
LastWriteWins(n) ==
    [key \in (DOMAIN callerPayload)
               \cup UNION { DOMAIN wfResults[j].result.data : j \in 1..n } |->
        IF Writers(key, n) = {}
        THEN callerPayload[key]
        ELSE wfResults[Largest(Writers(key, n))].result.data[key]]

\* C7: the payload the agent of step k receives is the initial payload,
\* overwritten in step order by the response data of the earlier steps, then
\* by step k's own overrides; nothing of step k or later is in it.
C7_StepPayload ==
    InWorkflow =>
      \A k \in 1..Len(agentCalls) :
        LET got == agentCalls[k].payload
            ctx == LastWriteWins(k - 1)
            ov == Overrides(wfSteps[k])
        IN  /\ DOMAIN got = (DOMAIN ctx) \cup (DOMAIN ov)
            /\ \A key \in DOMAIN got :
                 got[key] = IF key \in DOMAIN ov THEN ov[key] ELSE ctx[key]

\* C7 witness: step A returned {x: 3, y: 4}; step B, which overrides x with
\* 7, received y = 4 from A, x = 7 from its overrides, z = 5 from the request
C7_Witness ==
    /\ InWorkflow
    /\ Len(agentCalls) = 2
    /\ callerPayload = [x |-> "1", z |-> "5"]
    /\ wfResults[1].result.data = [x |-> "3", y |-> "4"]
    /\ Overrides(wfSteps[2]) = [x |-> "7"]
    /\ agentCalls[2].payload = [x |-> "7", y |-> "4", z |-> "5"]

\* C8: when a step's agent returns success=false and the step does not set
\* continue_on_error, the workflow returns WORKFLOW_FAILED, no later agent
\* is invoked, and the returned results log holds exactly the entries of the
\* steps up to and including the failed one.
C8_FailFast ==
    InWorkflow =>
      \A k \in 1..Len(wfResults) :
        (~wfResults[k].result.success /\ ~ContinueOnError(wfSteps[k]))
        => /\ pc = "wf_returned"
           /\ ~raised
           /\ response.success = FALSE
           /\ response.error_code = "WORKFLOW_FAILED"
           /\ Len(agentCalls) = k
           /\ DOMAIN response.data = {"results"}
           /\ Len(response.data["results"]) = k
           /\ \A j \in 1..k :
                /\ response.data["results"][j] = wfResults[j]
                /\ wfResults[j].agent = wfSteps[j]["agent"]

\* C8 witness: of two steps the first failed without continue_on_error
C8_Witness ==
    /\ pc = "wf_returned"
    /\ Len(wfSteps) = 2
    /\ response.error_code = "WORKFLOW_FAILED"
    /\ Len(agentCalls) = 1
    /\ Len(response.data["results"]) = 1

\* step k+1 names a registered agent and the head of the loop has run for it
NextStepStarted(k) ==
    /\ k < Len(wfSteps)
    /\ "agent" \in DOMAIN wfSteps[k + 1]
    /\ wfSteps[k + 1]["agent"] \in DOMAIN registry
    /\ (pc # "wf_loop" \/ wfIdx > k + 1)

\* C9: when a step's agent returns success=false and the step sets
\* continue_on_error, the workflow does not abort at that step: the loop
\* goes on to the next step, whose agent is invoked, and the failed step's
\* entry stays in the results log; a workflow that completes returns one
\* entry per step.
C9_ContinueOnError ==
    InWorkflow =>
      \A k \in 1..Len(wfResults) :
        (~wfResults[k].result.success /\ ContinueOnError(wfSteps[k]))
        => /\ wfIdx > k
           /\ response.error_code = "WORKFLOW_FAILED" => Len(wfResults) > k
           /\ wfResults[k].agent = wfSteps[k]["agent"]
           /\ NextStepStarted(k) =>
                 /\ Len(agentCalls) >= k + 1
                 /\ agentCalls[k + 1].agent = registry[wfSteps[k + 1]["agent"]]
           /\ (pc = "wf_returned" /\ "results" \in DOMAIN response.data) =>
                 /\ Len(response.data["results"]) >= k
                 /\ response.data["results"][k] = wfResults[k]
           /\ (pc = "wf_returned" /\ response.success) =>
                 Len(response.data["results"]) = Len(wfSteps)

\* C9 witness: of two steps the first failed under continue_on_error, the
\* second was executed and the workflow returned two entries
C9_Witness ==
    /\ pc = "wf_returned"
    /\ Len(wfSteps) = 2
    /\ response.success
    /\ ~response.data["results"][1].result.success
    /\ Len(agentCalls) = 2
    /\ Len(response.data["results"]) = 2

\* C10: when all steps complete, final_context is the initial payload
\* overwritten in step order by the response data of every executed step,
\* failed steps that continued included; step overrides are not in it
\* unless an agent returned them.
C10_FinalContext ==
    (pc = "wf_returned" /\ response.success)
    => /\ ~raised
       /\ Len(wfResults) = Len(wfSteps)
       /\ DOMAIN response.data = {"workflow", "results", "final_context"}
       /\ response.data["final_context"] = LastWriteWins(Len(wfSteps))

\* C10 witness: a step with the override w failed under continue_on_error
\* and returned {x: 3, y: 4}: the final context holds x = 3 in place of the
\* request's x = 1, and y, and no w
C10_Witness ==
    /\ pc = "wf_returned"
    /\ response.success
    /\ Len(wfSteps) >= 1
    /\ callerPayload = [x |-> "1", z |-> "5"]
    /\ "w" \in DOMAIN Overrides(wfSteps[1])
    /\ ~wfResults[1].result.success
    /\ wfResults[1].result.data = [x |-> "3", y |-> "4"]
    /\ response.data["final_context"] = [x |-> "3", y |-> "4", z |-> "5"]

\* step k names an agent id that the registry does not hold
AgentAbsent(k) ==
    /\ "agent" \in DOMAIN wfSteps[k]
    /\ wfSteps[k]["agent"] \notin DOMAIN registry

\* C11: a step that names an agent id absent from the registry aborts the
\* workflow with WORKFLOW_AGENT_MISSING, whether or not it sets
\* continue_on_error, and neither that step nor a later one invokes an agent.
C11_AgentMissing ==
    InWorkflow =>
      \A k \in 1..Len(wfSteps) :
        AgentAbsent(k)
        => /\ wfIdx <= k
           /\ Len(agentCalls) < k
           /\ Len(wfResults) < k
           /\ (wfIdx = k /\ pc # "wf_loop")
                 => /\ pc = "wf_returned"
                    /\ ~raised
                    /\ response.success = FALSE
                    /\ response.error_code = "WORKFLOW_AGENT_MISSING"
                    /\ response.error # ""

\* C11 witness: the second of three steps names an unregistered agent and
\* sets continue_on_error; one agent ran, then the workflow aborted
C11_Witness ==
    /\ pc = "wf_returned"
    /\ Len(wfSteps) = 3
    /\ wfIdx = 2
    /\ AgentAbsent(2)
    /\ ContinueOnError(wfSteps[2])
    /\ Len(agentCalls) = 1
    /\ response.error_code = "WORKFLOW_AGENT_MISSING"

\* C12: both fatal aborts, WORKFLOW_FAILED and WORKFLOW_AGENT_MISSING,
\* return the results log of the steps executed before the abort.
C12_PartialResults ==
    (/\ pc = "wf_returned"
     /\ response.error_code \in {"WORKFLOW_FAILED", "WORKFLOW_AGENT_MISSING"})
    => /\ "results" \in DOMAIN response.data
       /\ response.data["results"] = wfResults

\* C13: execute_workflow never raises, whatever the steps and the agents
\* do: every failure ends in a response with success=false.
C13_WorkflowNeverRaises ==
    /\ InWorkflow => ~raised
    /\ pc = "wf_returned" =>
          /\ response # NoResponse
          /\ DOMAIN response = EnvelopeFields

(***************************************************************************)
(* Properties of the concrete agents and of the response envelope           *)
(***************************************************************************)
\* a concrete agent's process was called directly
AgentCalled == agentOp # NoAgentOp

\* a failed response carries a non-empty error and an error code
FailureDescribed(o) ==
    ~o.success => (o.error \notin {None, ""} /\ o.error_code # None)

\* C14: process of each concrete agent never raises, whatever the request
\* payload and the model outcome (call failure, null content, non-JSON text,
\* JSON that is not an object); a failure is returned as a response with
\* success=false, a non-empty error and an error_code.
C14_AgentsNeverRaise ==
    AgentCalled
    => /\ agentOp.exc = None
       /\ FailureDescribed(agentOp.output)

\* success=false implies a non-empty error string; success=true implies no
\* error and no error_code
EnvelopeOk(o) ==
    /\ ~o.success => o.error \notin {None, ""}
    /\ o.success => (o.error = None /\ o.error_code = None)

\* C15: every response envelope returned by Orchestrator.process, by
\* execute_workflow or by a concrete agent has a non-empty error when
\* success=false, and neither error nor error_code when success=true.
C15_EnvelopeInvariant ==
    /\ (pc \in {"returned", "wf_returned"} /\ ~raised) => EnvelopeOk(response)
    /\ (AgentCalled /\ agentOp.exc = None) => EnvelopeOk(agentOp.output)

\* customer_support returned the model's failure as LLM_ERROR
C15_Witness ==
    /\ agentOp.agent = "customer_support"
    /\ agentOp.exc = None
    /\ ~agentOp.output.success
    /\ agentOp.output.error_code = "LLM_ERROR"
    /\ agentOp.output.error = agentOp.llm.error

\* the request carries an intent that is no key of the routing table
UnknownIntent ==
    /\ "intent" \in DOMAIN callerPayload
    /\ callerPayload["intent"] \notin
          {"search_medicine", "upload_prescription", "check_order",
           "create_order", "payment", "track_delivery", "general_question",
           "safety_check"}

\* C16: a request that carries an intent whose value is not a key of the
\* routing table, whatever the value, is routed to customer_support and the
\* model is not invoked.
C16_UnknownIntent ==
    (Routed /\ UnknownIntent)
    => /\ DecisionProduced
       /\ TargetOf(route.decision) = "customer_support"
       /\ ~route.llm
       /\ llm = NoLlm

\* an execute_tool call was made, for a tool the agent owns or not
ToolCalled == toolOp # NoToolOp
ToolKnown == toolOp.tool \in ToolsOf(toolOp.agent)

\* C17: execute_tool called with a tool name that is not in the agent's tool
\* set returns the serialized object {"error": ...} and does not raise,
\* whatever the serialized arguments.
C17_UnknownTool ==
    (ToolCalled /\ ~ToolKnown)
    => /\ toolOp.exc = None
       /\ toolOp.key = "error"
       /\ toolOp.returned = DumpsError(toolOp.error)

\* C18: execute_tool never raises for a tool of the agent's set: a malformed
\* argument string, arguments that are not an object of named arguments and
\* a raising handler give the serialized {"error": message}; a handler
\* returning r gives the serialized {"result": r}.
C18_KnownTool ==
    (ToolCalled /\ ToolKnown)
    => /\ toolOp.exc = None
       /\ IF toolOp.handler.called /\ toolOp.handler.exc = None
          THEN /\ toolOp.key = "result"
               /\ toolOp.returned = DumpsResult(toolOp.handler.result)
          ELSE /\ toolOp.key = "error"
               /\ toolOp.error # None
               /\ toolOp.returned = DumpsError(toolOp.error)

\* the ids registered by the register calls a step adds to the log
NewlyRegistered ==
    { regLog'[i].agent_type : i \in (Len(regLog) + 1)..Len(regLog') }

\* the agent passed to the most recent register call for id, None if none
LastRegistered(id) ==
    LET calls == { i \in DOMAIN regLog : regLog[i].agent_type = id }
    IN  IF calls = {} THEN None ELSE regLog[Largest(calls)].agent

\* get(id) returned the agent of the most recent register(id, .), or None
\* without raising when id was never registered
GetReturnsLastRegistered ==
    (regOp.op = "get" /\ regOp.agent_type # Unhashable)
    => /\ regOp.exc = None
       /\ regOp.agent = LastRegistered(regOp.agent_type)

\* list_agents returned exactly the ids registered so far
ListReturnsRegistered ==
    regOp.op = "list"
    => regOp.listed = { regLog[i].agent_type : i \in DOMAIN regLog }

\* no step removes an entry, and a step changes only the entries of the ids
\* its register calls name
RegistryOnlyGrows ==
    /\ DOMAIN registry \subseteq DOMAIN registry'
    /\ \A id \in DOMAIN registry' \ NewlyRegistered :
          id \in DOMAIN registry /\ registry'[id] = registry[id]

\* C19: after any sequence of register, get and list calls, get(id) returns
\* the agent passed to the most recent register(id, .), or None without
\* raising if id was never registered; no call removes an entry, and
\* register(id, .) leaves every other id's entry unchanged.
C19_Registry ==
    /\ [](GetReturnsLastRegistered /\ ListReturnsRegistered)
    /\ [][RegistryOnlyGrows]_vars

\* customer_support registered twice with different instances, then looked
\* up, with payment never registered
C19_Witness ==
    /\ Len(regLog) >= 2
    /\ regLog[Len(regLog)].agent_type = "customer_support"
    /\ \E i \in 1..(Len(regLog) - 1) :
          /\ regLog[i].agent_type = "customer_support"
          /\ regLog[i].agent # regLog[Len(regLog)].agent
    /\ regOp.op = "get"
    /\ regOp.agent_type = "customer_support"
    /\ regOp.agent = regLog[Len(regLog)].agent
    /\ "payment" \notin DOMAIN registry

\* C20: process on a newly constructed orchestrator, nothing registered by
\* the caller, for a request with only payload.message: it routes to
\* medicine_search or customer_support and the response is success=true.
C20_FreshOrchestratorRouting ==
    (/\ pc = "returned"
     /\ regLog = <<>>
     /\ callerPayload = [message |-> "Find ibuprofen"])
    => /\ DecisionProduced
       /\ TargetOf(route.decision) \in {"medicine_search", "customer_support"}
       /\ response.success

(***************************************************************************)
(* Properties of MedicineSearchAgent.process                                *)
(***************************************************************************)
\* a search request with a string query and a dict of filters, and a model
\* outcome among failure, non-JSON text and a JSON object
SearchRequest ==
    /\ AgentCalled
    /\ agentOp.agent = "medicine_search"
    /\ Get(agentOp.payload, "query", "") \notin {None, Unhashable}
    /\ Get(agentOp.payload, "filters", "{}") \in FilterDicts
    /\ (~agentOp.llm.success \/ agentOp.llm.kind \in {"text", "json_object"})

\* C21: MedicineSearchAgent.process returns success=true with a 'medicines'
\* entry in data for every search request, whether or not the search finds
\* anything and whatever the formatting model call yields (failure, non-JSON
\* text, any JSON object).
C21_MedicinesAlwaysPresent ==
    SearchRequest
    => /\ agentOp.exc = None
       /\ agentOp.output.success
       /\ "medicines" \in DOMAIN agentOp.output.data

(***************************************************************************)
(* Properties of the dispatched call: logging, the request envelope, the    *)
(* order of events                                                          *)
(***************************************************************************)
\* the target agent returned a response and log_action raised
LogFailed ==
    /\ pc = "returned"
    /\ ret.called
    /\ ret.agent.exc = None
    /\ ret.log # None

\* C22: if log_action fails while recording a dispatched call, process still
\* returns the target agent's response with its success flag and data
\* unchanged; the logging failure is never turned into a failed response.
C22_LogFailureIgnored ==
    LogFailed
    => /\ response.success = ret.agent.output.success
       /\ response.data = ret.agent.output.data
       /\ response.error_code # "ORCHESTRATION_ERROR"

\* C23: process leaves the caller's request envelope unchanged: after the
\* call the payload of the request object the caller passed in holds exactly
\* the keys and values it held before the call.
C23_RequestUnchanged ==
    (pc = "returned" /\ frames = <<>>) => inputPayload = callerPayload

\* C24: within one process call the events occur in the order received,
\* routed, registry lookup, dispatched, annotated: the target agent's process
\* is invoked at most once, only after the routing decision exists and the
\* registry lookup succeeded, and that call invokes no second agent.
C24_OneAgentPerCall ==
    InProcess =>
       /\ Len(agentCalls) <= 1
       /\ agentCalls # <<>> =>
             /\ DecisionProduced
             /\ TargetOf(route.decision) \in DOMAIN registry
             /\ agentCalls[1].agent = registry[TargetOf(route.decision)]

\* C25: execute_workflow invokes the steps' agents strictly in declared order
\* and one at a time (step k+1 is not started before step k's agent has
\* returned), and the results log holds exactly one {agent, result} entry per
\* invoked step in invocation order; when all steps complete without a fatal
\* abort the response has success=true, the workflow name and that full log.
C25_WorkflowOrder ==
    InWorkflow =>
       /\ Len(agentCalls) <= Len(wfSteps)
       /\ \A k \in 1..Len(agentCalls) :
             /\ "agent" \in DOMAIN wfSteps[k]
             /\ wfSteps[k]["agent"] \in DOMAIN registry
             /\ agentCalls[k].agent = registry[wfSteps[k]["agent"]]
       /\ pc = "wf_await" =>
             /\ wfIdx = Len(agentCalls)
             /\ Len(wfResults) = Len(agentCalls) - 1
       /\ pc = "wf_loop" =>
             /\ wfIdx = Len(agentCalls) + 1
             /\ Len(wfResults) = Len(agentCalls)
       /\ (pc = "wf_returned" /\ ~raised) => Len(wfResults) = Len(agentCalls)
       /\ \A k \in 1..Len(wfResults) :
             /\ DOMAIN wfResults[k] = {"agent", "result"}
             /\ wfResults[k].agent = wfSteps[k]["agent"]
             /\ wfResults[k].result # NoResponse
       /\ (pc = "wf_returned" /\ ~raised /\ wfIdx > Len(wfSteps)) =>
             /\ response.success
             /\ response.data["workflow"] = "order_flow"
             /\ response.data["results"] = wfResults
             /\ Len(wfResults) = Len(wfSteps)

\* C25 witness: three steps ran in order, the second failed and was allowed
\* to, and the response carries the three results
C25_Witness ==
    /\ pc = "wf_returned"
    /\ response.success
    /\ Len(wfSteps) = 3
    /\ Len(agentCalls) = 3
    /\ Len(response.data["results"]) = 3
    /\ ~response.data["results"][2].result.success
    /\ wfSteps[1]["agent"] # wfSteps[2]["agent"]

\* C26: the payload the target agent receives from process equals the
\* caller's payload overwritten by the routing decision's context_to_pass: a
\* key present in both takes the decision's value, a key only in the caller's
\* payload is forwarded unchanged, and a key only in the context is added.
C26_MergedPayload ==
    (pc \in {"dispatched", "returned"} /\ agentCalls # <<>>)
    => LET context == Get(route.decision, "context_to_pass", EmptyMap)
           got == agentCalls[1].payload
       IN  /\ DOMAIN got = (DOMAIN callerPayload) \cup (DOMAIN context)
           /\ \A k \in DOMAIN got :
                 got[k] = IF k \in DOMAIN context THEN context[k]
                          ELSE callerPayload[k]

\* C26 witness: order_processing got x from the decision, message from the
\* caller and action added
C26_Witness ==
    /\ pc = "dispatched"
    /\ callerPayload = [message |-> "Find ibuprofen", x |-> "1"]
    /\ Len(agentCalls) = 1
    /\ agentCalls[1].agent = "order_processing"
    /\ agentCalls[1].payload =
          [message |-> "Find ibuprofen", x |-> "9", action |-> "create"]

\* an exception was raised in the process call that has returned: in routing,
\* in the payload merge or the registry lookup, in the target agent's
\* process, or in the annotation of its result
ExceptionInCall ==
    \/ route.exc # None
    \/ /\ route.exc = None
       /\ Dispatch(registry, callerPayload, route).exc # None
    \/ /\ ret.called
       /\ (ret.agent.exc # None \/ ret.annotate # None)

\* C27: any exception raised during routing, payload merge, registry lookup,
\* the target agent's process or response annotation is converted by process
\* into a response with success=false, error_code ORCHESTRATION_ERROR and the
\* elapsed latency (a non-negative latency_ms) in its metadata.
C27_ExceptionsConverted ==
    (pc = "returned" /\ ExceptionInCall)
    => /\ ~raised
       /\ response.success = FALSE
       /\ response.error_code = "ORCHESTRATION_ERROR"
       /\ "latency_ms" \in DOMAIN response.metadata
       /\ response.metadata["latency_ms"] \in Nat

\* C27 witness: the agent returned no AgentOutput, the annotation raised, and
\* the caller got the error response
C27_Witness ==
    /\ pc = "returned"
    /\ ret.called
    /\ ret.annotate # None
    /\ response.error = ret.annotate
    /\ response.error_code = "ORCHESTRATION_ERROR"

Registered == \A a \in DOMAIN RegisteredAgents : a \in DOMAIN registry

\* C29: after register_agents has run, every target agent id that the static
\* intent routing table can produce is present in the registry, so no request
\* with an explicit intent ends in AGENT_NOT_FOUND.
C29_TableTargetsRegistered ==
    Registered =>
       /\ \A intent \in DOMAIN routing_map :
             routing_map[intent] \in DOMAIN registry
       /\ (/\ pc = "returned"
           /\ Get(callerPayload, "intent", None) \in DOMAIN routing_map)
          => response.error_code # "AGENT_NOT_FOUND"

\* C30: in the chat WebSocket endpoint, for every interleaving of connect,
\* request and disconnect events across connections (including two
\* connections open for the same user_id), the response to a request received
\* on a connection that is still open is delivered on that same connection:
\* it is never sent to a different connection and never dropped because
\* another connection disconnected.
C30_ResponseOnSameConnection ==
    wsSent.kind = "agent_response" => wsSent.to = wsSent.from
====
